---- MODULE Spec2Model ----
(***************************************************************************)
(* Model of when-time's TimeTask (src/src/TimeTask.js): a task that fires  *)
(* its operations at a time of day, optionally repeating on an interval.   *)
(*                                                                         *)
(* JavaScript values are encoded as follows.                               *)
(*   - a string the code parses is a sequence of one-character strings;    *)
(*   - an optional value (undefined or a value) is <<>> or <<value>>;      *)
(*   - a callback is a string naming what the callback does when called;   *)
(*   - the number Infinity is the constant Infinity, kept by Dec.          *)
(* Every timer callback and every API call runs to completion (JavaScript  *)
(* is single threaded), so each is one action; the callbacks a firing      *)
(* calls, and the calls those callbacks make on the task, are part of it.  *)
(*                                                                         *)
(* Spec follows one task through its life.  SpecTimeString constructs      *)
(* tasks from time strings of many shapes, SpecInterval calls every() with *)
(* interval strings of many shapes, and SpecSchedule schedules tasks with  *)
(* several target times at every half hour of the day.                     *)
(***************************************************************************)
EXTENDS Integers, Sequences, FiniteSets, TLC

(* ----------------------------- bounds ---------------------------------- *)

\* longest operations list do() is let to build
MaxTasks == 2
\* largest finite amount passed to repeat()
MaxRepeat == 3
\* the clock stops advancing here (milliseconds since the first midnight)
MaxNow == 259200000

(* --------------------------- program constants ------------------------- *)

conversion ==
    [day |-> 1000 * 60 * 60 * 24,
     hour |-> 1000 * 60 * 60,
     minute |-> 1000 * 60,
     second |-> 1000,
     millisecond |-> 1]

conversionKeys ==
    << <<"d","a","y">>,
       <<"h","o","u","r">>,
       <<"m","i","n","u","t","e">>,
       <<"s","e","c","o","n","d">>,
       <<"m","i","l","l","i","s","e","c","o","n","d">> >>

conversionOf(key) ==
    CASE key = <<"d","a","y">> -> conversion.day
      [] key = <<"h","o","u","r">> -> conversion.hour
      [] key = <<"m","i","n","u","t","e">> -> conversion.minute
      [] key = <<"s","e","c","o","n","d">> -> conversion.second
      [] OTHER -> conversion.millisecond

\* JavaScript's Infinity: larger than every finite count, and Infinity - 1 = Infinity
Infinity == 1000000000

Dec(n) == IF n = Infinity THEN Infinity ELSE n - 1

\* the delay a timer runs with: the runtime replaces a delay below 1 by 1
\* (the delays of this model stay below the runtime's upper limit of 2^31 - 1)
TimerDelay(ms) == IF ms < 1 THEN 1 ELSE ms

(* ------------------------------ strings -------------------------------- *)

UpperCase == <<"A","B","C","D","E","F","G","H","I","J","K","L","M",
               "N","O","P","Q","R","S","T","U","V","W","X","Y","Z">>
LowerCase == <<"a","b","c","d","e","f","g","h","i","j","k","l","m",
               "n","o","p","q","r","s","t","u","v","w","x","y","z">>
Digits == <<"0","1","2","3","4","5","6","7","8","9">>

IndexIn(c, seq) ==
    IF \E i \in 1..Len(seq) : seq[i] = c
    THEN CHOOSE i \in 1..Len(seq) : seq[i] = c
    ELSE 0

LowerChar(c) == IF IndexIn(c, UpperCase) > 0 THEN LowerCase[IndexIn(c, UpperCase)] ELSE c

toLowerCase(s) == [i \in 1..Len(s) |-> LowerChar(s[i])]

startsWith(s, prefix) ==
    Len(prefix) <= Len(s) /\ SubSeq(s, 1, Len(prefix)) = prefix

endsWith(s, suffix) ==
    Len(suffix) <= Len(s) /\ SubSeq(s, Len(s) - Len(suffix) + 1, Len(s)) = suffix

indexOf(s, c) == IndexIn(c, s) - 1

RECURSIVE SplitAcc(_, _, _, _)
SplitAcc(s, sep, cur, acc) ==
    IF s = <<>> THEN Append(acc, cur)
    ELSE IF Head(s) = sep THEN SplitAcc(Tail(s), sep, <<>>, Append(acc, cur))
    ELSE SplitAcc(Tail(s), sep, Append(cur, Head(s)), acc)

\* String.prototype.split with a one-character separator
split(s, sep) == SplitAcc(s, sep, <<>>, <<>>)

RECURSIVE DigitsValue(_, _)
DigitsValue(s, acc) ==
    IF s = <<>> THEN acc
    ELSE DigitsValue(Tail(s), acc * 10 + (IndexIn(Head(s), Digits) - 1))

AllDigits(s) == s # <<>> /\ \A i \in 1..Len(s) : IndexIn(s[i], Digits) > 0

\* The unary plus of the code, on the strings of the model (decimal digits
\* with an optional sign, or words that are no number in any notation):
\* <<n>> for a number, <<>> for NaN.  The empty string converts to 0.
ToNumber(s) ==
    IF s = <<>> THEN <<0>>
    ELSE IF AllDigits(s) THEN <<DigitsValue(s, 0)>>
    ELSE IF Head(s) = "-" /\ AllDigits(Tail(s)) THEN <<0 - DigitsValue(Tail(s), 0)>>
    ELSE IF Head(s) = "+" /\ AllDigits(Tail(s)) THEN <<DigitsValue(Tail(s), 0)>>
    ELSE <<>>

isNaN(n) == n = <<>>

\* chunks[i] || 0 followed by unary plus: a missing or empty chunk is 0
ChunkOrZero(chunks, i) ==
    IF i > Len(chunks) \/ chunks[i] = <<>> THEN <<0>> ELSE ToNumber(chunks[i])

(* ------------------------------ parsing -------------------------------- *)

\* JavaScript's remainder takes the sign of the dividend
JsRem(a, b) == IF a >= 0 THEN a % b ELSE 0 - ((0 - a) % b)

wrap_number(input, limit) ==
    IF input > limit THEN JsRem(input, limit)
    ELSE IF input < 0 THEN JsRem(input, limit) + limit
    ELSE input

\* #parse_time_string without the test for ':' in the part before the space
parse_time_string_colonless(time_string) ==
    LET lower == toLowerCase(time_string)
        isPM == endsWith(lower, <<" ","p","m">>)
        pre_chunk == split(lower, " ")[1]
        chunks == split(pre_chunk, ":")
        hours == ToNumber(chunks[1])
        wrapped == wrap_number(hours[1], 24)
    IN  IF ~isNaN(hours)
        THEN <<[hours |-> IF wrapped < 12 /\ isPM THEN wrapped + 12 ELSE wrapped,
                minutes |-> wrap_number(ChunkOrZero(chunks, 2)[1], 60),
                seconds |-> wrap_number(ChunkOrZero(chunks, 3)[1], 60),
                milliseconds |-> wrap_number(ChunkOrZero(chunks, 4)[1], 1000)]>>
        ELSE <<>>

\* <<point>> when the string parses, <<>> when the parser throws
parse_time_string(time_string) ==
    LET lower == toLowerCase(time_string)
        isPM == endsWith(lower, <<" ","p","m">>)
        pre_chunk == split(lower, " ")[1]
        chunks == split(pre_chunk, ":")
        hours == ToNumber(chunks[1])
        wrapped == wrap_number(hours[1], 24)
    IN  IF indexOf(pre_chunk, ":") > -1 /\ ~isNaN(hours)
        THEN <<[hours |-> IF wrapped < 12 /\ isPM THEN wrapped + 12 ELSE wrapped,
                minutes |-> wrap_number(ChunkOrZero(chunks, 2)[1], 60),
                seconds |-> wrap_number(ChunkOrZero(chunks, 3)[1], 60),
                milliseconds |-> wrap_number(ChunkOrZero(chunks, 4)[1], 1000)]>>
        ELSE <<>>

RECURSIVE ApplyKeys(_, _, _)
\* the forEach of the parser: every key the metric starts with multiplies the amount
ApplyKeys(keys, metric, acc) ==
    IF keys = <<>> THEN acc
    ELSE ApplyKeys(Tail(keys), metric,
                   IF startsWith(metric, Head(keys))
                   THEN [valid_metric |-> TRUE, amount |-> acc.amount * conversionOf(Head(keys))]
                   ELSE acc)

\* #parse_interval_string without the test of valid_metric
parse_interval_string_any_unit(interval_string) ==
    LET chunks == split(interval_string, " ")
        amount == ToNumber(chunks[1])
        metric == toLowerCase(chunks[2])
        result == ApplyKeys(conversionKeys, metric, [valid_metric |-> FALSE, amount |-> amount[1]])
    IN  IF Len(chunks) = 2 /\ ~isNaN(amount)
        THEN <<result.amount>>
        ELSE <<>>

\* <<milliseconds>> when the string parses, <<>> when the parser throws
parse_interval_string(interval_string) ==
    LET chunks == split(interval_string, " ")
        amount == ToNumber(chunks[1])
        metric == toLowerCase(chunks[2])
        result == ApplyKeys(conversionKeys, metric, [valid_metric |-> FALSE, amount |-> amount[1]])
    IN  IF Len(chunks) = 2 /\ ~isNaN(amount) /\ result.valid_metric
        THEN <<result.amount>>
        ELSE <<>>

(* ------------------------------ inputs --------------------------------- *)

\* what a callback does when it is called: nothing, task.cancel(), task.repeat(0)
Operations == {"fn:noop", "fn:cancel", "fn:repeat0"}
FinishHandlers == {"fn:noop", "fn:cancel"}
\* a value that is not a function and not a string
NotCallable == "number:42"

typeof(x) ==
    IF x \in Operations \cup FinishHandlers THEN "function"
    ELSE IF x = NotCallable THEN "number"
    ELSE "string"

\* time zone names: one the runtime knows, one it rejects with a RangeError
KnownTimezones == {"Asia/Tokyo"}
Timezones == KnownTimezones \cup {"Mars/Phobos"}

\* hours the wall clock of a zone is ahead of the host's (the host runs in UTC)
TimezoneShift(tz) == IF tz = "Asia/Tokyo" THEN 9 ELSE 0

TimeStrings == { <<"9",":","3","0"," ","P","M">> }

\* the parts time strings are put together from: hours, minutes, the
\* seconds and milliseconds (or none), and the meridiem (or none)
HourTexts ==
    { <<"-","2","5">>, <<"-","1">>, <<"0">>, <<"9">>, <<"1","2">>, <<"2","3">>, <<"2","4">>, <<"2","5">> }
MinuteTexts ==
    { <<"0","0">>, <<"3","0">>, <<"6","0">>, <<"-","1">> }
SecondsTexts ==
    { <<>>, <<":","6","0",":","1","0","0","0">>,
      <<":","-","1",":","-","1">>, <<":","5","9",":","9","9","9">> }
MeridiemTexts ==
    { <<>>, <<" ","A","M">>, <<" ","P","M">>, <<" ","p","m">> }
\* time strings without ':' before the first space, and with a non-numeric hour
OddTimeStrings ==
    { <<"1","2"," ","A","M">>, <<"5">>, <<"a","b","c">>,
      <<"a","b",":","3","0">>, <<"5"," ","P","M">>, <<>> }
ComposedTimeStrings ==
    { h \o <<":">> \o m \o r \o ap :
          h \in HourTexts, m \in MinuteTexts, r \in SecondsTexts, ap \in MeridiemTexts }
\* the strings tasks are constructed from when the parser is examined
ProbeTimeStrings == ComposedTimeStrings \cup OddTimeStrings

\* the target times of the tasks whose first scheduling is examined
TargetTimeStrings ==
    { <<"0",":","0","0">>, <<"0","0",":","1","0">>, <<"1","2",":","0","0">>,
      <<"9",":","3","0"," ","P","M">>, <<"2","3",":","5","9",":","5","9",":","9","9","9">>, <<"2","4",":","3","0">> }

\* interval strings of the documented form "<amount> <unit>"
WellFormedIntervalStrings ==
    { <<"1","2"," ","h","o","u","r","s">>,
      <<"1"," ","D","a","y">> }
\* interval strings with an unknown unit, one token only, a non-numeric amount
MalformedIntervalStrings ==
    { <<"2"," ","f","o","o">>,
      <<"h","o","u","r","s">>,
      <<"x"," ","h","o","u","r","s">> }
IntervalStrings == WellFormedIntervalStrings \cup MalformedIntervalStrings

\* the parts interval strings are put together from: amounts and unit words
AmountTexts ==
    { <<"0">>, <<"1">>, <<"5">>, <<"1","2">>, <<"-","2">>,
      <<>>, <<"x">>, <<"f","i","v","e">>, <<"1","x">> }
UnitTexts ==
    { <<"d","a","y">>, <<"D","a","y","s">>, <<"h","o","u","r">>, <<"H","O","U","R","S">>,
      <<"h","o","u","r","g","l","a","s","s">>, <<"m","i","n","u","t","e">>, <<"M","i","n","u","t","e","s">>, <<"s","e","c","o","n","d">>,
      <<"s","e","c","o","n","d","s">>, <<"m","i","l","l","i","s","e","c","o","n","d">>, <<"M","i","l","l","i","s","e","c","o","n","d","s">>, <<"f","o","o">>,
      <<"m","i","n","s">>, <<"m","s">>, <<"o","u","r">>, <<>> }
\* interval strings that are not two tokens with one space between them
OddIntervalStrings ==
    { <<"h","o","u","r","s">>, <<"5">>, <<"5"," ","h","o","u","r","s"," ","a","g","o">>,
      <<"5"," "," ","h","o","u","r","s">>, <<"5"," ","h","o","u","r","s"," ">>, <<>> }
ComposedIntervalStrings ==
    { amount \o <<" ">> \o unit : amount \in AmountTexts, unit \in UnitTexts }
\* the strings every() is called with when the parser is examined
ProbeIntervalStrings == ComposedIntervalStrings \cup OddIntervalStrings

RepeatAmounts == (0..MaxRepeat) \cup {Infinity}

\* instants at which the task may be constructed
StartTimes == {0, 21 * conversion.hour + 30 * conversion.minute}

\* instants at which the first scheduling is examined: every half hour of a
\* day, the first ten minutes of the day, and the last millisecond of the day
ScheduleTimes ==
    { half * 30 * conversion.minute : half \in 0..47 }
        \cup {10 * conversion.minute, conversion.day - 1}

(* ------------------------------- state --------------------------------- *)

VARIABLES
    time_point,         \* #time_point
    timezone,           \* #timezone, optional
    timeout,            \* #timeout, optional handle of the single-shot timer
    interval,           \* #interval, optional handle of the recurring timer
    tasks,              \* #tasks
    repeat_interval,    \* #repeat_interval
    repeat_count,       \* #repeat_count
    state,              \* #state
    next_execution,     \* #next_execution, optional
    finish_handler,     \* #finish_handler, optional
    now,                \* Date.now(), milliseconds since a local midnight
    timers,             \* the live timers of the runtime
    timer_seq,          \* number of timers created so far
    firings,            \* history: firings begun
    handler_calls,      \* history: invocations of the finish handler
    handler_firing,     \* history: the firing during which the handler ran, optional
    first_count,        \* history: #repeat_count when the first firing began, optional
    reconfigured,       \* history: repeat() was called after the first firing began
    cancels,            \* history: "none", or cancel() was called in a "terminal" / an "active" state
    left_terminal,      \* history: #state was changed away from FINISHED or CANCELLED
    handler_after_cancel, \* history: the finish handler ran after a cancel() of an active task
    op_after_cancel,    \* history: an operation ran after a cancel() had returned
    order_kept,         \* history: every firing ran the registered operations, once each, in order
    probe,              \* history: the argument of the latest constructor or parser call, optional
    threw               \* the method whose error the caller is handling, or "none"

progvars == <<time_point, timezone, timeout, interval, tasks, repeat_interval,
              repeat_count, state, next_execution, finish_handler>>
envvars == <<now, timers, timer_seq>>
histvars == <<firings, handler_calls, handler_firing, first_count, reconfigured,
              cancels, left_terminal, handler_after_cancel, op_after_cancel, order_kept>>
vars == <<progvars, envvars, histvars, probe, threw>>

Terminal == {"FINISHED", "CANCELLED"}

\* the task, the runtime and the history as one value the methods transform;
\* ran is the list of the operations the firing in progress has called so far
Cur ==
    [time_point |-> time_point, timezone |-> timezone, timeout |-> timeout,
     interval |-> interval, tasks |-> tasks, repeat_interval |-> repeat_interval,
     repeat_count |-> repeat_count, state |-> state,
     next_execution |-> next_execution, finish_handler |-> finish_handler,
     now |-> now, timers |-> timers, timer_seq |-> timer_seq,
     firings |-> firings, handler_calls |-> handler_calls,
     handler_firing |-> handler_firing, first_count |-> first_count,
     reconfigured |-> reconfigured, cancels |-> cancels,
     left_terminal |-> left_terminal,
     handler_after_cancel |-> handler_after_cancel,
     op_after_cancel |-> op_after_cancel,
     order_kept |-> order_kept, ran |-> <<>>]

Install(t) ==
    /\ time_point' = t.time_point
    /\ timezone' = t.timezone
    /\ timeout' = t.timeout
    /\ interval' = t.interval
    /\ tasks' = t.tasks
    /\ repeat_interval' = t.repeat_interval
    /\ repeat_count' = t.repeat_count
    /\ state' = t.state
    /\ next_execution' = t.next_execution
    /\ finish_handler' = t.finish_handler
    /\ now' = t.now
    /\ timers' = t.timers
    /\ timer_seq' = t.timer_seq
    /\ firings' = t.firings
    /\ handler_calls' = t.handler_calls
    /\ handler_firing' = t.handler_firing
    /\ first_count' = t.first_count
    /\ reconfigured' = t.reconfigured
    /\ cancels' = t.cancels
    /\ left_terminal' = t.left_terminal
    /\ handler_after_cancel' = t.handler_after_cancel
    /\ op_after_cancel' = t.op_after_cancel
    /\ order_kept' = t.order_kept

\* the result of a method: the task afterwards and whether the method threw
Returned(t) == [task |-> t, threw |-> FALSE]
Thrown(t) == [task |-> t, threw |-> TRUE]

(* ------------------------------ runtime -------------------------------- *)

\* setTimeout / setInterval: a new live timer, its handle is its number
NewTimer(t, kind, ms) ==
    [id |-> t.timer_seq + 1, kind |-> kind,
     due |-> t.now + TimerDelay(ms), period |-> TimerDelay(ms)]

\* clearTimeout / clearInterval of a handle
ClearTimer(live, handle) == {tm \in live : <<tm.id>> # handle}

LiveTimers(kind) == {tm \in timers : tm.kind = kind}

(* --------------------------- time of day ------------------------------- *)

\* the fields of new Date() in the host's zone
LocalPoint(ms) ==
    LET tod == ms % conversion.day
    IN  [hours |-> tod \div conversion.hour,
         minutes |-> (tod % conversion.hour) \div conversion.minute,
         seconds |-> (tod % conversion.minute) \div conversion.second,
         milliseconds |-> tod % conversion.second]

\* toLocaleTimeString('en-US', {timeZone: tz}): the hour 1..12 and the meridiem
LocaleTime(ms, tz) ==
    LET h24 == (LocalPoint(ms).hours + TimezoneShift(tz)) % 24
    IN  [hour |-> IF h24 % 12 = 0 THEN 12 ELSE h24 % 12, isPM |-> h24 >= 12]

current_time_tz(ms, tz) ==
    LET native == LocaleTime(ms, tz)
    IN  [hours |-> native.hour + (IF native.isPM THEN 12 ELSE 0),
         minutes |-> LocalPoint(ms).minutes,
         seconds |-> LocalPoint(ms).seconds,
         milliseconds |-> LocalPoint(ms).milliseconds]

current_time(t) ==
    IF t.timezone # <<>> THEN current_time_tz(t.now, t.timezone[1])
    ELSE LocalPoint(t.now)

\* the time zone lookup of current_time_tz throws for a zone the runtime rejects
CurrentTimeThrows(t) == t.timezone # <<>> /\ t.timezone[1] \notin KnownTimezones

point_to_milliseconds(point) ==
    point.hours * conversion.hour
    + point.minutes * conversion.minute
    + point.seconds * conversion.second
    + point.milliseconds * conversion.millisecond

\* #execution_offset comparing with <= : a target equal to the current time is today's
execution_offset_same_day(t) ==
    LET current_msecs == point_to_milliseconds(current_time(t))
        future_msecs == point_to_milliseconds(t.time_point)
    IN  IF current_msecs <= future_msecs
        THEN future_msecs - current_msecs
        ELSE conversion.day - current_msecs + future_msecs

execution_offset(t) ==
    LET current_msecs == point_to_milliseconds(current_time(t))
        future_msecs == point_to_milliseconds(t.time_point)
    IN  IF current_msecs < future_msecs
        THEN future_msecs - current_msecs
        ELSE conversion.day - current_msecs + future_msecs

(* ------------------------------ methods -------------------------------- *)

RECURSIVE finish(_, _), RunCallback(_, _), RunTasks(_, _)

\* #finish without the clearInterval
finish_keeps_interval(t, new_state) ==
    LET cleared ==
            [t EXCEPT
                !.timers = ClearTimer(t.timers, t.timeout),
                !.tasks = <<>>,
                !.state = new_state,
                !.left_terminal = @ \/ (t.state \in Terminal /\ new_state # t.state)]
    IN  IF new_state = "FINISHED" /\ t.finish_handler # <<>>
        THEN RunCallback([cleared EXCEPT
                             !.handler_calls = @ + 1,
                             !.handler_firing = <<t.firings>>,
                             !.handler_after_cancel = @ \/ t.cancels = "active"],
                         t.finish_handler[1])
        ELSE cleared

\* #finish(state): release the timers, clear the operations, set the state,
\* and call the finish handler when the state is FINISHED
finish(t, new_state) ==
    LET cleared ==
            [t EXCEPT
                !.timers = ClearTimer(ClearTimer(t.timers, t.timeout), t.interval),
                !.tasks = <<>>,
                !.state = new_state,
                !.left_terminal = @ \/ (t.state \in Terminal /\ new_state # t.state)]
    IN  IF new_state = "FINISHED" /\ t.finish_handler # <<>>
        THEN RunCallback([cleared EXCEPT
                             !.handler_calls = @ + 1,
                             !.handler_firing = <<t.firings>>,
                             !.handler_after_cancel = @ \/ t.cancels = "active"],
                         t.finish_handler[1])
        ELSE cleared

cancel(t) ==
    finish([t EXCEPT !.cancels = IF t.state \notin Terminal THEN "active"
                                 ELSE IF @ = "none" THEN "terminal" ELSE @],
           "CANCELLED")

repeat(t, amount) ==
    IF t.finish_handler # <<>> /\ amount = Infinity
    THEN Thrown(t)
    ELSE Returned([t EXCEPT !.repeat_count = amount,
                            !.reconfigured = @ \/ t.first_count # <<>>])

\* a callback runs: the call it makes on the task, if any, is made here
RunCallback(t, callback) ==
    CASE callback = "fn:cancel" -> cancel(t)
      [] callback = "fn:repeat0" -> repeat(t, 0).task
      [] OTHER -> t

RECURSIVE RunTasks_live(_, _)
\* a loop over this.#tasks itself, which ends when a callback empties #tasks
RunTasks_live(t, list) ==
    IF list = <<>> \/ t.tasks = <<>> THEN t
    ELSE RunTasks_live(RunCallback([t EXCEPT !.op_after_cancel = @ \/ t.cancels # "none",
                                             !.ran = Append(@, Head(list))],
                                   Head(list)),
                       Tail(list))

\* this.#tasks.forEach((task) => task()) over the array forEach was called on
RunTasks(t, list) ==
    IF list = <<>> THEN t
    ELSE RunTasks(RunCallback([t EXCEPT !.op_after_cancel = @ \/ t.cancels # "none",
                                        !.ran = Append(@, Head(list))],
                              Head(list)),
                  Tail(list))

\* #parse_time_string on the time strings of the model, computed once
ParsedTime ==
    [time_string \in TimeStrings \cup ProbeTimeStrings \cup TargetTimeStrings |->
        parse_time_string(time_string)]

\* new TimeTask(time_string): the field initializers and the constructor;
\* the task the model follows from now on is the new one
constructor(t, time_string) ==
    LET point == ParsedTime[time_string]
    IN  IF point = <<>> THEN Thrown(t)
        ELSE Returned([t EXCEPT !.time_point = point[1],
                                !.timezone = <<>>,
                                !.timeout = <<>>,
                                !.interval = <<>>,
                                !.tasks = <<>>,
                                !.repeat_interval = conversion.day,
                                !.repeat_count = 0,
                                !.state = "INITIALIZED",
                                !.next_execution = <<>>,
                                !.finish_handler = <<>>])

inTimezone(t, tz) ==
    IF typeof(tz) # "string" THEN Thrown(t)
    ELSE Returned([t EXCEPT !.timezone = <<tz>>])

\* #parse_interval_string on the interval strings of the model, computed once
ParsedInterval ==
    [interval_string \in IntervalStrings \cup ProbeIntervalStrings |->
        parse_interval_string(interval_string)]

every(t, interval_string) ==
    LET milliseconds == ParsedInterval[interval_string]
    IN  IF milliseconds = <<>> THEN Thrown(t)
        ELSE Returned([t EXCEPT !.repeat_interval = milliseconds[1]])

\* whenFinished without the check of the repeat count
whenFinished_unchecked(t, handler) ==
    IF typeof(handler) # "function" THEN Thrown(t)
    ELSE Returned([t EXCEPT !.finish_handler = <<handler>>])

whenFinished(t, handler) ==
    IF typeof(handler) # "function" THEN Thrown(t)
    ELSE IF t.repeat_count = Infinity THEN Thrown(t)
    ELSE Returned([t EXCEPT !.finish_handler = <<handler>>])

\* #schedule without the PENDING guard
schedule_always(t) ==
    IF CurrentTimeThrows(t) THEN Thrown(t)
    ELSE LET offset == execution_offset(t)
             timer == NewTimer(t, "timeout", offset)
         IN  Returned([t EXCEPT !.state = "PENDING",
                                !.next_execution = <<t.now + offset>>,
                                !.timeout = <<timer.id>>,
                                !.timers = @ \cup {timer},
                                !.timer_seq = timer.id])

\* #schedule recomputing next_execution when the task is PENDING already
schedule_refreshing(t) ==
    IF CurrentTimeThrows(t) THEN Thrown(t)
    ELSE IF t.state = "PENDING"
    THEN Returned([t EXCEPT !.next_execution = <<t.now + execution_offset(t)>>])
    ELSE LET offset == execution_offset(t)
             timer == NewTimer(t, "timeout", offset)
         IN  Returned([t EXCEPT !.state = "PENDING",
                                !.next_execution = <<t.now + offset>>,
                                !.timeout = <<timer.id>>,
                                !.timers = @ \cup {timer},
                                !.timer_seq = timer.id])

\* #schedule(): arm the single-shot timer unless the task is PENDING already
schedule(t) ==
    IF t.state = "PENDING" THEN Returned(t)
    ELSE IF CurrentTimeThrows(t) THEN Thrown(t)
    ELSE LET offset == execution_offset(t)
             timer == NewTimer(t, "timeout", offset)
         IN  Returned([t EXCEPT !.state = "PENDING",
                                !.next_execution = <<t.now + offset>>,
                                !.timeout = <<timer.id>>,
                                !.timers = @ \cup {timer},
                                !.timer_seq = timer.id])

\* do() queueing the task before it checks the state
do_push_first(t, task) ==
    IF typeof(task) # "function" THEN Thrown(t)
    ELSE IF t.state # "INITIALIZED" /\ t.state # "PENDING"
         THEN Thrown([t EXCEPT !.tasks = Append(@, task)])
    ELSE schedule([t EXCEPT !.tasks = Append(@, task)])

do(t, task) ==
    IF typeof(task) # "function" THEN Thrown(t)
    ELSE IF t.state # "INITIALIZED" /\ t.state # "PENDING" THEN Thrown(t)
    ELSE schedule([t EXCEPT !.tasks = Append(@, task)])

\* the first_time branch without the decrement that accounts for the first firing
FirstTime_uncounted(t) ==
    LET started == [t EXCEPT !.state = "STARTED"]
        timer == NewTimer(t, "interval", t.repeat_interval)
    IN  IF t.repeat_count > 1
        THEN [started EXCEPT !.next_execution = <<t.now + t.repeat_interval>>,
                             !.interval = <<timer.id>>,
                             !.timers = @ \cup {timer},
                             !.timer_seq = timer.id]
        ELSE started

\* the first_time branch of #execute
FirstTime(t) ==
    LET started == [t EXCEPT !.state = "STARTED"]
        timer == NewTimer(t, "interval", t.repeat_interval)
    IN  IF t.repeat_count > 1
        THEN [started EXCEPT !.repeat_count = Dec(@),
                             !.next_execution = <<t.now + t.repeat_interval>>,
                             !.interval = <<timer.id>>,
                             !.timers = @ \cup {timer},
                             !.timer_seq = timer.id]
        ELSE started

\* #execute(first_time)
execute(t, first_time) ==
    LET begun == [t EXCEPT !.firings = @ + 1,
                           !.first_count = IF first_time THEN <<t.repeat_count>> ELSE @]
        set_up == IF first_time THEN FirstTime(begun) ELSE begun
        called == RunTasks(set_up, set_up.tasks)
        ran == [called EXCEPT !.order_kept = @ /\ called.ran = t.tasks, !.ran = <<>>]
    IN  IF ran.repeat_count < 1 THEN finish(ran, "FINISHED") ELSE ran

\* #repeat without the check that the task is still STARTED
hash_repeat_unguarded(t) ==
    LET executed == execute(t, FALSE)
        counted == [executed EXCEPT !.repeat_count = Dec(@)]
    IN  IF counted.repeat_count < 1
        THEN finish(counted, "FINISHED")
        ELSE [counted EXCEPT !.next_execution = <<counted.now + counted.repeat_interval>>]

\* #repeat(), the callback of the recurring timer
hash_repeat(t) ==
    LET executed == execute(t, FALSE)
        counted == [executed EXCEPT !.repeat_count = Dec(@)]
    IN  IF counted.repeat_count < 1 /\ counted.state = "STARTED"
        THEN finish(counted, "FINISHED")
        ELSE [counted EXCEPT !.next_execution = <<counted.now + counted.repeat_interval>>]

\* the callback #schedule hands to setTimeout
TimeoutCallback(t) == [execute(t, TRUE) EXCEPT !.timeout = <<>>]

(* ------------------------------ actions -------------------------------- *)

\* new TimeTask(time_string), for a time string the parser accepts
Init ==
    /\ \E time_string \in TimeStrings :
          /\ parse_time_string(time_string) # <<>>
          /\ time_point = parse_time_string(time_string)[1]
    /\ timezone = <<>>
    /\ timeout = <<>>
    /\ interval = <<>>
    /\ tasks = <<>>
    /\ repeat_interval = conversion.day
    /\ repeat_count = 0
    /\ state = "INITIALIZED"
    /\ next_execution = <<>>
    /\ finish_handler = <<>>
    /\ now \in StartTimes
    /\ timers = {}
    /\ timer_seq = 0
    /\ firings = 0
    /\ handler_calls = 0
    /\ handler_firing = <<>>
    /\ first_count = <<>>
    /\ reconfigured = FALSE
    /\ cancels = "none"
    /\ left_terminal = FALSE
    /\ handler_after_cancel = FALSE
    /\ op_after_cancel = FALSE
    /\ order_kept = TRUE
    /\ probe = <<>>
    /\ threw = "none"

\* a public method called from outside the task's callbacks returns or throws
Complete(method, result) ==
    /\ Install(result.task)
    /\ threw' = IF result.threw THEN method ELSE "none"

CallInTimezone ==
    /\ threw = "none"
    /\ \E tz \in Timezones \cup {NotCallable} :
          Complete("inTimezone", inTimezone(Cur, tz))
    /\ UNCHANGED probe

CallDo ==
    /\ threw = "none"
    /\ Len(tasks) < MaxTasks
    /\ \E task \in Operations \cup {NotCallable} :
          Complete("do", do(Cur, task))
    /\ UNCHANGED probe

CallRepeat ==
    /\ threw = "none"
    /\ \E amount \in RepeatAmounts :
          Complete("repeat", repeat(Cur, amount))
    /\ UNCHANGED probe

CallEvery ==
    /\ threw = "none"
    /\ \E interval_string \in IntervalStrings :
          Complete("every", every(Cur, interval_string))
    /\ UNCHANGED probe

CallWhenFinished ==
    /\ threw = "none"
    /\ \E handler \in FinishHandlers \cup {NotCallable} :
          Complete("whenFinished", whenFinished(Cur, handler))
    /\ UNCHANGED probe

CallCancel ==
    /\ threw = "none"
    /\ Complete("cancel", Returned(cancel(Cur)))
    /\ UNCHANGED probe

\* the single-shot timer fires once it is due
FireTimeout ==
    \E tm \in LiveTimers("timeout") :
        /\ threw = "none"
        /\ tm.due <= now
        /\ Install(TimeoutCallback([Cur EXCEPT !.timers = @ \ {tm}]))
        /\ threw' = "none"
        /\ UNCHANGED probe

\* the recurring timer fires once it is due and stays armed for the next period
FireInterval ==
    \E tm \in LiveTimers("interval") :
        /\ threw = "none"
        /\ tm.due <= now
        /\ Install(hash_repeat([Cur EXCEPT
                      !.timers = (@ \ {tm}) \cup {[tm EXCEPT !.due = now + tm.period]}]))
        /\ threw' = "none"
        /\ UNCHANGED probe

\* time passes until the next live timer is due
Advance ==
    /\ threw = "none"
    /\ timers # {}
    /\ \A tm \in timers : tm.due > now
    /\ \E tm \in timers :
          /\ \A other \in timers : tm.due <= other.due
          /\ tm.due <= MaxNow
          /\ now' = tm.due
    /\ threw' = "none"
    /\ UNCHANGED <<progvars, timers, timer_seq, histvars, probe>>

\* the caller of a method that threw handles the error and carries on
Catch ==
    /\ threw # "none"
    /\ threw' = "none"
    /\ probe' = <<>>
    /\ UNCHANGED <<progvars, envvars, histvars>>

Next ==
    \/ CallInTimezone
    \/ CallDo
    \/ CallRepeat
    \/ CallEvery
    \/ CallWhenFinished
    \/ CallCancel
    \/ FireTimeout
    \/ FireInterval
    \/ Advance
    \/ Catch

Spec == Init /\ [][Next]_vars

(* ----------------------- the time string parser ------------------------ *)

\* tasks are constructed from time strings of many shapes
Construct ==
    /\ threw = "none"
    /\ \E time_string \in ProbeTimeStrings :
          /\ Complete("constructor", constructor(Cur, time_string))
          /\ probe' = <<time_string>>

NextTimeString ==
    \/ Construct
    \/ Catch

SpecTimeString == Init /\ [][NextTimeString]_vars

(* ---------------------- the interval string parser --------------------- *)

\* every() is called with interval strings of many shapes
ProbeEvery ==
    /\ threw = "none"
    /\ \E interval_string \in ProbeIntervalStrings :
          /\ Complete("every", every(Cur, interval_string))
          /\ probe' = <<interval_string>>

NextInterval ==
    \/ ProbeEvery
    \/ Catch

SpecInterval == Init /\ [][NextInterval]_vars

(* -------------------------- the first scheduling ----------------------- *)

\* a task with any of the target times, constructed at any time of the day
InitSchedule ==
    /\ \E time_string \in TargetTimeStrings :
          /\ ParsedTime[time_string] # <<>>
          /\ time_point = ParsedTime[time_string][1]
    /\ timezone = <<>>
    /\ timeout = <<>>
    /\ interval = <<>>
    /\ tasks = <<>>
    /\ repeat_interval = conversion.day
    /\ repeat_count = 0
    /\ state = "INITIALIZED"
    /\ next_execution = <<>>
    /\ finish_handler = <<>>
    /\ now \in ScheduleTimes
    /\ timers = {}
    /\ timer_seq = 0
    /\ firings = 0
    /\ handler_calls = 0
    /\ handler_firing = <<>>
    /\ first_count = <<>>
    /\ reconfigured = FALSE
    /\ cancels = "none"
    /\ left_terminal = FALSE
    /\ handler_after_cancel = FALSE
    /\ op_after_cancel = FALSE
    /\ order_kept = TRUE
    /\ probe = <<>>
    /\ threw = "none"

\* the time zone is chosen and operations are added; no time passes
NextSchedule ==
    \/ CallInTimezone
    \/ CallDo
    \/ Catch

SpecSchedule == InitSchedule /\ [][NextSchedule]_vars

(* ------------------------------- claims -------------------------------- *)

\* C1: FINISHED and CANCELLED are terminal: once the state is FINISHED or
\* CANCELLED no step changes it, neither a call nor a firing, nor a call
\* made by a callback in the middle of a firing.
C1_TerminalStatesAreFinal ==
    [][(state \in Terminal => state' = state) /\ ~left_terminal']_vars

\* C2: after cancel() was called on a task that was INITIALIZED, PENDING or
\* STARTED, the finish handler is never invoked.
C2_CancelSuppressesFinishHandler ==
    cancels = "active" => ~handler_after_cancel

\* C3: once a cancel() call has returned no timer of the task is live and
\* no operation callback is executed any more.
C3_NothingRunsAfterCancel ==
    cancels # "none" => (timers = {} /\ ~op_after_cancel)

\* C4: a scheduled task with a finite repeat count that is never cancelled
\* eventually reaches FINISHED.  Only a timer firing moves a task to
\* FINISHED, so such a task, as long as it is PENDING or STARTED, must have a
\* live timer.
C4_FiniteTaskKeepsATimer ==
    (state \in {"PENDING", "STARTED"} /\ repeat_count # Infinity /\ cancels = "none")
        => timers # {}

\* C5: the finish handler is invoked at most once.
C5_FinishHandlerAtMostOnce == handler_calls <= 1

C5_Witness == handler_calls = 1 /\ firings >= 2 /\ reconfigured

\* the number of firings of a task whose first firing began with repeat count n
Firings(n) == IF n > 1 THEN n ELSE 1

\* C6: a task whose repeat count is a finite N when the first firing begins,
\* with no repeat() and no cancel() afterwards, never fires more than
\* max(1, N) times; when it is FINISHED it has fired exactly max(1, N) times
\* and remaining is 0; the finish handler runs once, in the last firing.
C6_FiringsMatchRepeatCount ==
    (first_count # <<>> /\ first_count # <<Infinity>> /\ ~reconfigured /\ cancels = "none")
        => /\ firings <= Firings(first_count[1])
           /\ state = "FINISHED" =>
                 (firings = Firings(first_count[1]) /\ repeat_count = 0)
           /\ handler_calls > 0 =>
                 /\ state = "FINISHED"
                 /\ handler_calls = 1
                 /\ handler_firing = <<Firings(first_count[1])>>

C6_Witness ==
    /\ first_count = <<MaxRepeat>>
    /\ ~reconfigured
    /\ cancels = "none"
    /\ state = "FINISHED"
    /\ firings = MaxRepeat
    /\ handler_calls = 1

\* C7: an infinite repeat count and a finish handler never hold together;
\* repeat(Infinity) throws when a handler is set and whenFinished(handler)
\* throws when the repeat count is Infinity.
C7_InfinityExcludesHandler ==
    /\ ~(repeat_count = Infinity /\ finish_handler # <<>>)
    /\ finish_handler # <<>> => repeat(Cur, Infinity) = Thrown(Cur)
    /\ repeat_count = Infinity =>
          \A handler \in FinishHandlers : whenFinished(Cur, handler) = Thrown(Cur)

C7_Witness == threw = "repeat" /\ finish_handler # <<>> /\ state = "STARTED"

\* C8: at most one single-shot timer and at most one recurring timer are live.
C8_AtMostOneTimerOfEachKind ==
    /\ Cardinality(LiveTimers("timeout")) <= 1
    /\ Cardinality(LiveTimers("interval")) <= 1

C8_Witness ==
    LiveTimers("interval") # {} /\ firings >= 2 /\ Len(tasks) = MaxTasks

\* C9: whenever the state is FINISHED or CANCELLED the operations list is
\* empty and no timer of the task is live.
C9_TerminalTaskIsInert ==
    state \in Terminal => (tasks = <<>> /\ timers = {})

C9_Witness ==
    state = "CANCELLED" /\ interval # <<>> /\ firings >= 1 /\ repeat_count > 1

\* the failing calls C10 lists, each throwing and returning the task as it was
ListedCallsThrow ==
    LET task_now == Cur
        failed == Thrown(task_now)
    IN  /\ do(task_now, NotCallable) = failed
        /\ state \in {"STARTED", "FINISHED", "CANCELLED"} =>
              \A task \in Operations : do(task_now, task) = failed
        /\ finish_handler # <<>> => repeat(task_now, Infinity) = failed
        /\ whenFinished(task_now, NotCallable) = failed
        /\ repeat_count = Infinity =>
              \A handler \in FinishHandlers : whenFinished(task_now, handler) = failed
        /\ \A interval_string \in MalformedIntervalStrings :
              every(task_now, interval_string) = failed
        /\ inTimezone(task_now, NotCallable) = failed

\* do(f) on an INITIALIZED task whose time zone the runtime rejects: the
\* error comes from the time zone lookup, after the task was queued
ZoneLookupFails == state = "INITIALIZED" /\ CurrentTimeThrows(Cur)

C11_OperationsRunInOrder == order_kept

C11_Witness ==
    order_kept /\ state = "STARTED" /\ firings >= 2 /\ Len(tasks) = MaxTasks

\* C12: the offset to the next occurrence that the first scheduling computes
\* is at least 0 and less than 86,400,000 ms, for every target time and
\* every current time, in local mode and in time zone mode.  (No time passes
\* after the scheduling, so the offset is next_execution - now.)
C12_OffsetWithinADay ==
    state = "PENDING" => (next_execution[1] - now) \in 0..(conversion.day - 1)

\* C13: the time point of a task is normalized: hours in 0..23, minutes in
\* 0..59, seconds in 0..59, milliseconds in 0..999, for every accepted time
\* string with integer components, negative ones and ones at or above the
\* limit included.
C13_TimePointIsNormalized ==
    /\ time_point.hours \in 0..23
    /\ time_point.minutes \in 0..59
    /\ time_point.seconds \in 0..59
    /\ time_point.milliseconds \in 0..999

\* the number an amount text stands for, <<>> for a text that is no number
\* (the empty text counts as 0, as for the unary plus of the code)
ClaimedAmount(amount) ==
    CASE amount = <<"0">> -> <<0>>
      [] amount = <<"1">> -> <<1>>
      [] amount = <<"5">> -> <<5>>
      [] amount = <<"1","2">> -> <<12>>
      [] amount = <<"-","2">> -> <<0 - 2>>
      [] amount = <<>> -> <<0>>
      [] OTHER -> <<>>

\* the milliseconds of the unit a unit word starts with, <<>> when it starts with none
ClaimedUnit(unit) ==
    CASE unit \in {<<"d","a","y">>, <<"D","a","y","s">>} -> <<86400000>>
      [] unit \in {<<"h","o","u","r">>, <<"H","O","U","R","S">>, <<"h","o","u","r","g","l","a","s","s">>} -> <<3600000>>
      [] unit \in {<<"m","i","n","u","t","e">>, <<"M","i","n","u","t","e","s">>} -> <<60000>>
      [] unit \in {<<"s","e","c","o","n","d">>, <<"s","e","c","o","n","d","s">>} -> <<1000>>
      [] unit \in {<<"m","i","l","l","i","s","e","c","o","n","d">>, <<"M","i","l","l","i","s","e","c","o","n","d","s">>} -> <<1>>
      [] OTHER -> <<>>

TwelveOClock == [hours |-> 12, minutes |-> 0, seconds |-> 0, milliseconds |-> 0]

\* C15 as claimed: "12 AM" is accepted and gives the time point 12:00:00.000,
\* and "5" and "abc" are rejected.
C15_TwelveAMIsAccepted ==
    /\ probe = <<<<"1","2"," ","A","M">>>> => (threw = "none" /\ time_point = TwelveOClock)
    /\ probe \in {<<<<"5">>>>, <<<<"a","b","c">>>>} => threw = "constructor"

\* C15 as amended: "12:00 AM" is accepted and gives the time point
\* 12:00:00.000 (hour 12, not 0); "12 AM", "5" and "abc" are rejected.
C15_TwelveAMNeedsColon ==
    /\ probe = <<<<"1","2",":","0","0"," ","A","M">>>> => (threw = "none" /\ time_point = TwelveOClock)
    /\ probe \in {<<<<"1","2"," ","A","M">>>>, <<<<"5">>>>, <<<<"a","b","c">>>>} =>
          threw = "constructor"

C15_Witness ==
    probe = <<<<"1","2",":","0","0"," ","A","M">>>> /\ threw = "none" /\ time_point.hours = 12

\* C16: the first successful do() on an INITIALIZED task moves it to PENDING
\* and arms the single-shot timer; a do(f) on a PENDING task appends f and
\* leaves the state, the timers, next_execution, the repeat count, the
\* repeat interval and the finish handler as they were.
C16_SchedulingIsIdempotent ==
    [][\A task \in Operations :
          (tasks' = Append(tasks, task) /\ threw' = "none") =>
              /\ state \in {"INITIALIZED", "PENDING"}
              /\ state' = "PENDING"
              /\ state = "INITIALIZED" =>
                    \E tm \in timers' :
                        /\ timers' = {tm}
                        /\ tm.kind = "timeout"
                        /\ timeout' = <<tm.id>>
              /\ state = "PENDING" =>
                    UNCHANGED <<time_point, timezone, timeout, interval, repeat_interval,
                                repeat_count, next_execution, finish_handler, envvars>>]_vars

C16_Witness ==
    state = "PENDING" /\ Len(tasks) = MaxTasks /\ timezone = <<>> /\ timers # {}

\* C17: the first scheduling computes the offset from the current time of
\* day and the target time of day, both in milliseconds since midnight: the
\* full day when they are equal, target - current when current < target,
\* 86,400,000 - current + target when current > target.
C17_OffsetToNextOccurrence ==
    [][(state = "INITIALIZED" /\ state' = "PENDING") =>
          LET current == point_to_milliseconds(current_time(Cur))
              target == point_to_milliseconds(time_point)
              offset == next_execution'[1] - now
          IN  /\ current = target => offset = 86400000
              /\ current < target => offset = target - current
              /\ current > target => offset = 86400000 - current + target]_vars

C17_Witness ==
    /\ state = "PENDING"
    /\ timezone = <<>>
    /\ now % conversion.day = point_to_milliseconds(time_point)
    /\ next_execution = <<now + conversion.day>>

\* C18: whenever a timer of the task is live, next_execution is the instant
\* at which that timer fires next.
C18_NextExecutionIsAccurate ==
    \A tm \in timers : next_execution = <<tm.due>>

\* C19: in time zone mode the hours of the current time point are in 0..23
\* and are the 24-hour value of the rendered hour and meridiem (12 AM is 0,
\* 12 PM is 12), so the current time of day is below 86,400,000 ms.
C19_ZoneHourIsTwentyFourHourValue ==
    (timezone # <<>> /\ ~CurrentTimeThrows(Cur)) =>
        LET native == LocaleTime(now, timezone[1])
            point == current_time(Cur)
        IN  /\ point.hours \in 0..23
            /\ point.hours = (native.hour % 12) + (IF native.isPM THEN 12 ELSE 0)
            /\ point_to_milliseconds(point) < conversion.day

\* C20: remaining never is negative (repeat() is only called with
\* non-negative amounts).
C20_RemainingNeverNegative == repeat_count >= 0

====
